---- MODULE Spec2Model ----
(***************************************************************************)
(* Carboni: emission calculator (server/routes.ts and                      *)
(* client/src/lib/carbonCalculations.ts), the tables of activities, goals  *)
(* and achievements, the queries of server/storage.ts and the request      *)
(* handlers of server/routes.ts.                                           *)
(*                                                                         *)
(* Number representation (JavaScript numbers are modelled exactly, as      *)
(* fixed-point integers):                                                  *)
(*   - quantities (miles, kWh, therms) are in hundredths of a unit;        *)
(*   - emission factors are in thousandths of a kg CO2e per unit;          *)
(*   - serving masses are in hundredths of a kg;                           *)
(*   - an unrounded emission is therefore in 1e-5 kg;                      *)
(*   - Math.round(x * 100) / 100 yields cents (hundredths of a kg).        *)
(* The input sets below are chosen so that the IEEE-754 evaluation of the  *)
(* source agrees with the exact one (no binary tie at a half cent); the    *)
(* real columns of PostgreSQL and their sums are exact as well.            *)
(* An optional field of a JavaScript object is a key that is, or is not,   *)
(* in the DOMAIN of the function that models the object.                   *)
(***************************************************************************)
EXTENDS Integers, Sequences, FiniteSets, TLC

VARIABLES
    activities,   \* the rows of table "activities", in insertion order
    now,          \* the server clock: hours since 1 January 00:00 UTC
    tz,           \* the server's time-zone offset, hours east of UTC
    goals,        \* the rows of table "goals", in insertion order
    achievements, \* the rows of table "achievements", in insertion order
    posting,      \* the POST /api/activities requests in flight
    req,          \* the GET /api/dashboard request in flight
    res,          \* the last exchange: request (or call) and response
    data,         \* the argument of the calculator call under test
    out           \* the result of the calculator call under test

vars ==
    <<activities, goals, achievements, posting, req, now, tz, res, data, out>>

----------------------------------------------------------------------------
(* JavaScript values                                                       *)

\* NaN, the result of undefined * number
NaN == 2000000000

\* undefined, the result of reading a missing property
Undefined == 2000000001

\* a * b
Times(a, b) ==
    IF a \in {NaN, Undefined} \/ b \in {NaN, Undefined} THEN NaN ELSE a * b

\* a + b
Plus(a, b) ==
    IF a \in {NaN, Undefined} \/ b \in {NaN, Undefined} THEN NaN ELSE a + b

\* if (data.f) for a string property
TruthyStr(d, f) == f \in DOMAIN d /\ d[f] # ""

\* if (data.f) for a number property
TruthyNum(d, f) == f \in DOMAIN d /\ d[f] # 0 /\ d[f] # NaN

\* Math.round(x * 100) / 100, from 1e-5 kg to cents; Math.round rounds a
\* half towards +Infinity
Round2(x) == IF x = NaN THEN NaN ELSE (x + 500) \div 1000

----------------------------------------------------------------------------
(* The emission factor table                                               *)

EMISSION_FACTORS_Swapped ==
    [transport |-> [car_gasoline |-> 390, car_electric |-> 130, bus |-> 45,
                    train |-> 70, bike |-> 0, walking |-> 0],
     energy    |-> [electricity |-> 370, naturalGas |-> 5300],
     food      |-> [beef |-> 30400, chicken |-> 4200, vegetables |-> 1000]]

EMISSION_FACTORS ==
    [transport |-> [car_gasoline |-> 390, car_electric |-> 130, bus |-> 70,
                    train |-> 45, bike |-> 0, walking |-> 0],
     energy    |-> [electricity |-> 370, naturalGas |-> 5300],
     food      |-> [beef |-> 30400, chicken |-> 4200, vegetables |-> 1000]]

\* EMISSION_FACTORS.transport[type]
TransportFactor(type) ==
    IF type \in DOMAIN EMISSION_FACTORS.transport
    THEN EMISSION_FACTORS.transport[type]
    ELSE Undefined

\* the serving sizes written in the food formulas: 0.5, 0.2 and 0.15 kg
BeefKg == 50
ChickenKg == 20
VegetableKg == 15

\* the unrounded sums that both calculators share
EnergySumOverwritten(d) ==
    IF TruthyNum(d, "naturalGasUsage")
    THEN Times(EMISSION_FACTORS.energy.naturalGas, d.naturalGasUsage)
    ELSE IF TruthyNum(d, "electricityUsage")
         THEN Times(EMISSION_FACTORS.energy.electricity, d.electricityUsage)
         ELSE 0

EnergySum(d) ==
    Plus(IF TruthyNum(d, "electricityUsage")
         THEN Times(EMISSION_FACTORS.energy.electricity, d.electricityUsage)
         ELSE 0,
         IF TruthyNum(d, "naturalGasUsage")
         THEN Times(EMISSION_FACTORS.energy.naturalGas, d.naturalGasUsage)
         ELSE 0)

FoodSumPerKg(d) ==
    Plus(Plus(IF TruthyNum(d, "beefServings")
              THEN Times(EMISSION_FACTORS.food.beef * 100, d.beefServings)
              ELSE 0,
              IF TruthyNum(d, "chickenServings")
              THEN Times(EMISSION_FACTORS.food.chicken * ChickenKg,
                         d.chickenServings)
              ELSE 0),
         IF TruthyNum(d, "vegetableServings")
         THEN Times(EMISSION_FACTORS.food.vegetables * VegetableKg,
                    d.vegetableServings)
         ELSE 0)

FoodSum(d) ==
    Plus(Plus(IF TruthyNum(d, "beefServings")
              THEN Times(EMISSION_FACTORS.food.beef * BeefKg, d.beefServings)
              ELSE 0,
              IF TruthyNum(d, "chickenServings")
              THEN Times(EMISSION_FACTORS.food.chicken * ChickenKg,
                         d.chickenServings)
              ELSE 0),
         IF TruthyNum(d, "vegetableServings")
         THEN Times(EMISSION_FACTORS.food.vegetables * VegetableKg,
                    d.vegetableServings)
         ELSE 0)

EmissionResultsOfRounded(t, e, f, total) ==
    [transportEmissions |-> Round2(t),
     energyEmissions    |-> Round2(e),
     foodEmissions      |-> Round2(f),
     totalEmissions     |-> Plus(Plus(Round2(t), Round2(e)), Round2(f))]

\* the object both calculators return
EmissionResults(t, e, f, total) ==
    [transportEmissions |-> Round2(t),
     energyEmissions    |-> Round2(e),
     foodEmissions      |-> Round2(f),
     totalEmissions     |-> Round2(total)]

\* server: calculateEmissions of routes.ts
ServerTransport(d) ==
    IF TruthyStr(d, "transportType") /\ TruthyNum(d, "transportDistance")
    THEN Times(TransportFactor(d.transportType), d.transportDistance)
    ELSE 0

calculateEmissions(d) ==
    LET t == ServerTransport(d)
        e == EnergySum(d)
        f == FoodSum(d)
    IN  EmissionResults(t, e, f, Plus(Plus(t, e), f))

\* client: calculateEmissions of lib/carbonCalculations.ts
ClientTransport(d) ==
    IF TruthyStr(d, "transportType") /\ TruthyNum(d, "transportDistance")
    THEN LET factor == TransportFactor(d.transportType)
         IN  IF factor # Undefined
             THEN Times(factor, d.transportDistance)
             ELSE 0
    ELSE 0

clientCalculateEmissions(d) ==
    LET t == ClientTransport(d)
        e == EnergySum(d)
        f == FoodSum(d)
    IN  EmissionResults(t, e, f, Plus(Plus(t, e), f))

----------------------------------------------------------------------------
(* Inputs of the calculator calls                                          *)

MaxServings == 2

RecognizedTypes == DOMAIN EMISSION_FACTORS.transport

\* "plane" stands for any string that is not a key of the transport table
TransportTypes == RecognizedTypes \cup {"plane", ""}

\* hundredths of a mile: 0.1, 2, 50 and 100 miles, and a negative distance
Distances == {-200, 0, 10, 200, 5000, 10000}

\* hundredths of a kWh and of a therm
ElectricityUsages == {0, 1, 1000}
NaturalGasUsages == {0, 100}

Servings == 0 .. MaxServings

\* either no property f, or property f with a value of S
Opt(f, S) == {<<>>} \cup {f :> v : v \in S}

ActivityData ==
    {a @@ b @@ c @@ d @@ e @@ f @@ g :
        a \in Opt("transportType", TransportTypes),
        b \in Opt("transportDistance", Distances),
        c \in Opt("electricityUsage", ElectricityUsages),
        d \in Opt("naturalGasUsage", NaturalGasUsages),
        e \in Opt("beefServings", Servings),
        f \in Opt("chickenServings", Servings),
        g \in Opt("vegetableServings", Servings)}

NoResult == [by |-> "none"]

----------------------------------------------------------------------------
(* The calendar and the JavaScript Date operations the queries use.        *)
(* A calendar date ("YYYY-MM-DD") is its day number in a non-leap year,    *)
(* 1 .. 365; the order of the ISO strings is the order of the numbers.     *)
(* An instant is a number of hours since 1 January 00:00 UTC.              *)

DaysInMonth == <<31, 28, 31, 30, 31, 30, 31, 31, 30, 31, 30, 31>>

RECURSIVE DaysBefore(_)
DaysBefore(m) == IF m = 1 THEN 0 ELSE DaysBefore(m - 1) + DaysInMonth[m - 1]

\* the first and the last day of each month
FirstDays == [m \in 1 .. 12 |-> DaysBefore(m) + 1]
LastDays == [m \in 1 .. 12 |-> DaysBefore(m) + DaysInMonth[m]]

FirstDay(m) == FirstDays[m]
LastDay(m) == LastDays[m]

\* the month of each day
Months ==
    [d \in 1 .. 365 |->
        CHOOSE m \in 1 .. 12 : FirstDays[m] <= d /\ d <= LastDays[m]]

MonthOfDay(d) == Months[d]

\* date.toISOString().split('T')[0]: the UTC calendar date of an instant
ToISODate(t) == t \div 24 + 1

\* now.getMonth(): the month of the server's local calendar date
GetMonth(t) == MonthOfDay((t + tz) \div 24 + 1)

\* new Date(year, month, day): local midnight of a calendar date
NewDate(d) == (d - 1) * 24 - tz

\* new Date(y, m, 1) and new Date(y, m + 1, 0), as ISO dates
StartOfMonth == ToISODate(NewDate(FirstDay(GetMonth(now))))
EndOfMonth == ToISODate(NewDate(LastDay(GetMonth(now))))

\* new Date(y, m - 1, 1) and new Date(y, m, 0), as ISO dates
StartOfLastMonth == ToISODate(NewDate(FirstDay(GetMonth(now) - 1)))
EndOfLastMonth == ToISODate(NewDate(LastDay(GetMonth(now) - 1)))

\* cutoffDate.setDate(cutoffDate.getDate() - days), as an ISO date
CutoffDate(days) == ToISODate(now - 24 * days)

----------------------------------------------------------------------------
(* Table "activities" and the queries of DatabaseStorage                   *)

\* the rows of table "users": every authenticated caller has one
Users == {"A", "B", "C"}

\* SQL NULL, the sum of no row
Null == 2000000002

\* x || 0
OrZero(x) == IF x \in {Null, NaN, Undefined, 0} THEN 0 ELSE x

\* a < b on PostgreSQL reals: NaN equals NaN and is above every number
PgLess(a, b) == a # NaN /\ (b = NaN \/ a < b)

RECURSIVE SumCol(_, _)
SumCol(col, I) ==
    IF I = {} THEN 0
    ELSE LET i == CHOOSE j \in I : TRUE
         IN  Plus(activities[i][col], SumCol(col, I \ {i}))

\* select sum(col) from activities where id in I
SqlSum(col, I) == IF I = {} THEN Null ELSE SumCol(col, I)

\* where user_id = userId
RowsOfUser(userId) ==
    {i \in DOMAIN activities : activities[i].userId = userId}

\* where date >= from and date <= to
RowsBetween(from, to) ==
    {i \in DOMAIN activities :
        activities[i].date >= from /\ activities[i].date <= to}

\* where date >= from
RowsSince(from) == {i \in DOMAIN activities : activities[i].date >= from}

getEmissionsThisMonth(userId) ==
    OrZero(SqlSum("totalEmissions",
                  RowsOfUser(userId) \cap RowsBetween(StartOfMonth, EndOfMonth)))

getEmissionsLastMonth(userId) ==
    OrZero(SqlSum("totalEmissions",
                  RowsOfUser(userId)
                      \cap RowsBetween(StartOfLastMonth, EndOfLastMonth)))

getEmissionsByCategory(userId, days) ==
    LET I == RowsOfUser(userId) \cap RowsSince(CutoffDate(days))
    IN  [transport |-> OrZero(SqlSum("transportEmissions", I)),
         energy    |-> OrZero(SqlSum("energyEmissions", I)),
         food      |-> OrZero(SqlSum("foodEmissions", I))]

\* the user ids of the groups of: where date in month group by user_id
GroupsOfMonth ==
    {u \in Users : RowsOfUser(u) \cap RowsBetween(StartOfMonth, EndOfMonth) # {}}

\* sum(total_emissions) of one group
GroupSum(u) ==
    SqlSum("totalEmissions",
           RowsOfUser(u) \cap RowsBetween(StartOfMonth, EndOfMonth))

\* the first query of getUserRank, and userEmissions[0]?.total || 0
UserTotal(userId) == OrZero(GroupSum(userId))

\* the second query of getUserRank: the groups having sum < userTotal
BetterUsers(userTotal) ==
    {u \in GroupsOfMonth : PgLess(GroupSum(u), userTotal)}

\* getUserRank(userId), when no insertion falls between its two queries
getUserRank(userId) == Cardinality(BetterUsers(UserTotal(userId))) + 1

\* select user, sum(total_emissions) ... group by users.id: the sum of each
\* group (the where clause on activities.date drops the users without a row
\* in the month, left join or not)
GroupSums == [u \in GroupsOfMonth |-> GroupSum(u)]

\* order by sum(total_emissions) asc: every order of the groups in which no
\* group comes before a group with a smaller sum (ties in any order)
Ordered(sums) ==
    {o \in [1 .. Cardinality(DOMAIN sums) -> DOMAIN sums] :
        /\ \A i, j \in DOMAIN o : i # j => o[i] # o[j]
        /\ \A i, j \in DOMAIN o : i < j => ~PgLess(sums[o[j]], sums[o[i]])}

Min(a, b) == IF a < b THEN a ELSE b

\* the results getLeaderboard(limit) can return, limit >= 0
getLeaderboard(limit) ==
    LET sums == GroupSums
    IN  {[index \in 1 .. Min(limit, Cardinality(DOMAIN sums)) |->
              [user           |-> o[index],
               totalEmissions |-> OrZero(sums[o[index]]),
               rank           |-> index]] :
            o \in Ordered(sums)}

\* the orders of the rows I in which no row comes before a row with a later
\* date (rows of one date in any order)
ByDateDesc(I) ==
    {o \in [1 .. Cardinality(I) -> I] :
        /\ \A i, j \in DOMAIN o : i # j => o[i] # o[j]
        /\ \A i, j \in DOMAIN o :
               i < j => activities[o[i]].date >= activities[o[j]].date}

\* the results getUserActivities(userId, limit) can return, limit >= 0
getUserActivities(userId, limit) ==
    LET I == RowsOfUser(userId)
    IN  {[k \in 1 .. Min(limit, Cardinality(I)) |-> activities[o[k]]] :
            o \in ByDateDesc(I)}

\* the results getUserActivitiesByDateRange(userId, startDate, endDate) can
\* return
getUserActivitiesByDateRange(userId, startDate, endDate) ==
    LET I == RowsOfUser(userId) \cap RowsBetween(startDate, endDate)
    IN  {[k \in 1 .. Cardinality(I) |-> activities[o[k]]] : o \in ByDateDesc(I)}

getTotalEmissions(userId) ==
    OrZero(SqlSum("totalEmissions", RowsOfUser(userId)))

\* the rows of userId in table t, the latest inserted first (order by the
\* timestamp the row got at its insertion, desc)
LatestFirst(t, userId) ==
    LET rows == SelectSeq(t, LAMBDA r : r.userId = userId)
    IN  [k \in 1 .. Len(rows) |-> rows[Len(rows) + 1 - k]]

getUserGoals(userId) == LatestFirst(goals, userId)

getUserAchievements(userId) == LatestFirst(achievements, userId)

----------------------------------------------------------------------------
(* insertActivitySchema and the request bodies                             *)

\* JSON values of a request body
JNum(n) == [num |-> n]
JStr(s) == [str |-> s]

\* the columns insertActivitySchema keeps, by the type it requires
StringColumns == {"userId", "date", "transportType"}
NumberColumns ==
    {"transportDistance", "electricityUsage", "naturalGasUsage",
     "beefServings", "chickenServings", "vegetableServings"}

\* insertActivitySchema.parse(input) throws a ZodError
ZodError(input) ==
    \/ \E c \in StringColumns \cap DOMAIN input : "str" \notin DOMAIN input[c]
    \/ \E c \in NumberColumns \cap DOMAIN input : "num" \notin DOMAIN input[c]
    \/ "userId" \notin DOMAIN input
    \/ "date" \notin DOMAIN input

\* the value insertActivitySchema.parse(input) returns: the columns of the
\* schema that the input has, other keys stripped
Parsed(input) ==
    [c \in (StringColumns \cup NumberColumns) \cap DOMAIN input |->
        IF c \in StringColumns THEN input[c].str ELSE input[c].num]

\* the columns insertGoalSchema keeps, by the type it requires, and the
\* ones it requires to be present
GoalStringColumns == {"userId", "type", "period", "startDate", "endDate"}
GoalNumberColumns == {"targetValue", "currentValue"}
GoalRequiredColumns ==
    {"userId", "type", "targetValue", "period", "startDate", "endDate"}

\* insertGoalSchema.parse(input) throws a ZodError
ZodErrorGoal(input) ==
    \/ \E c \in GoalStringColumns \cap DOMAIN input :
           "str" \notin DOMAIN input[c]
    \/ \E c \in GoalNumberColumns \cap DOMAIN input :
           "num" \notin DOMAIN input[c]
    \/ ~(GoalRequiredColumns \subseteq DOMAIN input)

\* the value insertGoalSchema.parse(input) returns
ParsedGoal(input) ==
    [c \in (GoalStringColumns \cup GoalNumberColumns) \cap DOMAIN input |->
        IF c \in GoalStringColumns THEN input[c].str ELSE input[c].num]

----------------------------------------------------------------------------
(* The server state before any request                                     *)

MaxActivities == 2

\* 15 March, 12:00 UTC
Nows == {(74 - 1) * 24 + 12}

TimeZones == {0, 5}

\* 28 February and 31 March: the day before the current month begins, and
\* its last day
FebruaryEnd == LastDay(2)
MarchEnd == LastDay(3)

\* the request bodies of POST /api/activities: 50 miles by electric car
\* (6.50 kg), 2 beef servings (30.40 kg), an unrecognized transport type, a
\* negative usage, a distance that is not a number, and dated records

Inputs ==
    {[transportType |-> JStr("car_electric"), transportDistance |-> JNum(5000)],
     [beefServings |-> JNum(2)],
     [transportType |-> JStr("plane"), transportDistance |-> JNum(1000)],
     [electricityUsage |-> JNum(-1000)],
     [transportDistance |-> JStr("far")],
     [date |-> JStr(FebruaryEnd), beefServings |-> JNum(2)],
     [date |-> JStr(FebruaryEnd), transportType |-> JStr("car_electric"),
      transportDistance |-> JNum(5000)],
     [date |-> JStr(MarchEnd), transportType |-> JStr("car_electric"),
      transportDistance |-> JNum(5000)]}

NoExchange == [op |-> "none"]

\* no request in flight
NoRequest == [pc |-> "idle"]

InitServer ==
    /\ activities = <<>>
    /\ goals = <<>>
    /\ achievements = <<>>
    /\ posting = {}
    /\ req = NoRequest
    /\ now \in Nows
    /\ tz \in TimeZones
    /\ res = NoExchange

Init ==
    /\ InitServer
    /\ data = <<>>
    /\ out = [by |-> "none"]

----------------------------------------------------------------------------
(* The request handlers of routes.ts                                       *)

createActivityOnePerDay(activity) ==
    LET row == [id |-> Len(activities) + 1] @@ activity
                   @@ [beefServings |-> 0, chickenServings |-> 0,
                       vegetableServings |-> 0]
    IN  Append(SelectSeq(activities,
                         LAMBDA a : ~(a.userId = row.userId
                                      /\ a.date = row.date)),
               row)

\* db.insert(activities).values(activity).returning(): the serial id and
\* the column defaults are added
createActivity(activity) ==
    Append(activities,
           [id |-> Len(activities) + 1] @@ activity
               @@ [beefServings |-> 0, chickenServings |-> 0,
                   vegetableServings |-> 0])

PostActivityKeepingBody(userId, activityData) ==
    LET input ==
            [userId |-> JStr(userId),
             date   |-> IF "date" \in DOMAIN activityData
                        THEN activityData.date
                        ELSE JStr(ToISODate(now))] @@ activityData
    IN  IF ZodError(input)
        THEN /\ res' = [op |-> "postActivity", user |-> userId, status |-> 400,
                        json |-> [message |-> "Invalid activity data"]]
             /\ UNCHANGED activities
        ELSE LET validatedData == Parsed(input)
                 emissions == calculateEmissions(validatedData)
             IN  \/ /\ Len(activities) < MaxActivities
                    /\ activities' =
                           createActivity(
                               [c \in DOMAIN emissions \cap DOMAIN activityData
                                   |-> activityData[c].num]
                                   @@ emissions @@ validatedData)
                    /\ res' = [op |-> "postActivity", user |-> userId,
                               status |-> 200,
                               json |-> [activity |->
                                             activities'[Len(activities')],
                                         emissions |-> emissions,
                                         message |->
                                             "Activity logged successfully"]]
                 \/ \* storage.createActivity rejects
                    /\ res' = [op |-> "postActivity", user |-> userId,
                               status |-> 500,
                               json |-> [message |-> "Failed to log activity"]]
                    /\ UNCHANGED activities

\* POST /api/activities
PostActivity(userId, activityData) ==
    LET input ==
            [userId |-> JStr(userId),
             date   |-> IF "date" \in DOMAIN activityData
                        THEN activityData.date
                        ELSE JStr(ToISODate(now))] @@ activityData
    IN  IF ZodError(input)
        THEN /\ res' = [op |-> "postActivity", user |-> userId, status |-> 400,
                        json |-> [message |-> "Invalid activity data"]]
             /\ UNCHANGED activities
        ELSE LET validatedData == Parsed(input)
                 emissions == calculateEmissions(validatedData)
             IN  \/ /\ Len(activities) < MaxActivities
                    /\ activities' = createActivity(emissions @@ validatedData)
                    /\ res' = [op |-> "postActivity", user |-> userId,
                               status |-> 200,
                               json |-> [activity |->
                                             activities'[Len(activities')],
                                         emissions |-> emissions,
                                         message |->
                                             "Activity logged successfully"]]
                 \/ \* storage.createActivity rejects
                    /\ res' = [op |-> "postActivity", user |-> userId,
                               status |-> 500,
                               json |-> [message |-> "Failed to log activity"]]
                    /\ UNCHANGED activities

PercentChangeTruncated(last, this) == (100 * (last - this)) \div last

\* Math.round(((last - this) / last) * 100), last > 0: the nearest integer,
\* halves up
PercentChange(last, this) == (200 * (last - this) + last) \div (2 * last)

ReductionPercentageUnguarded(last, this) ==
    IF last > 0 THEN PercentChange(last, this) ELSE NaN

\* emissionsLastMonth > 0 ? Math.round(...) : 0
ReductionPercentage(last, this) ==
    IF last > 0 THEN PercentChange(last, this) ELSE 0

\* the names toLocaleDateString('en-US', {weekday: 'short'}) gives
WeekdayNames == <<"Sun", "Mon", "Tue", "Wed", "Thu", "Fri", "Sat">>

\* date.toLocaleDateString('en-US', {weekday: 'short'}): the weekday of the
\* server's local calendar date, in a year that begins on a Thursday
ToWeekday(t) == WeekdayNames[(((t + tz) \div 24 + 4) % 7) + 1]

ChartDaysNewestFirst == <<0, 1, 2, 3, 4, 5, 6>>

\* the values of i of the loop that fills chartData, in the order it runs
ChartDays == <<6, 5, 4, 3, 2, 1, 0>>

\* recentActivities.find(a => a.date === dateStr): the index of the first
\* match, 0 when there is none
FindDate(recentActivities, dateStr) ==
    LET found == {k \in DOMAIN recentActivities :
                     recentActivities[k].date = dateStr}
    IN  IF found = {} THEN 0
        ELSE CHOOSE k \in found : \A j \in found : k <= j

\* dayActivity?.column || 0
DayValue(recentActivities, k, column) ==
    IF k = 0 THEN 0 ELSE OrZero(recentActivities[k][column])

\* the chartData object the loop builds from recentActivities
ChartData(recentActivities) ==
    LET date(n) == now - 24 * ChartDays[n]
        dayActivity(n) == FindDate(recentActivities, ToISODate(date(n)))
    IN  [labels    |-> [n \in DOMAIN ChartDays |-> ToWeekday(date(n))],
         transport |-> [n \in DOMAIN ChartDays |->
                           DayValue(recentActivities, dayActivity(n),
                                    "transportEmissions")],
         energy    |-> [n \in DOMAIN ChartDays |->
                           DayValue(recentActivities, dayActivity(n),
                                    "energyEmissions")],
         food      |-> [n \in DOMAIN ChartDays |->
                           DayValue(recentActivities, dayActivity(n),
                                    "foodEmissions")]]

\* POST /api/activities up to its await: the body is validated and the
\* emissions are calculated; the call of storage.createActivity is in flight
PostActivityArrive(userId, activityData) ==
    LET input ==
            [userId |-> JStr(userId),
             date   |-> IF "date" \in DOMAIN activityData
                        THEN activityData.date
                        ELSE JStr(ToISODate(now))] @@ activityData
    IN  /\ \A c \in posting : c.user # userId
        /\ IF ZodError(input)
           THEN /\ res' = [op |-> "postActivity", user |-> userId,
                           status |-> 400,
                           json |-> [message |-> "Invalid activity data"]]
                /\ UNCHANGED posting
           ELSE LET validatedData == Parsed(input)
                    emissions == calculateEmissions(validatedData)
                IN  /\ posting' = posting \cup
                           {[user |-> userId,
                             activity |-> emissions @@ validatedData,
                             emissions |-> emissions]}
                    /\ UNCHANGED res
        /\ UNCHANGED activities

PostActivityInsertShared(userId) ==
    \E c \in posting :
        LET others == {d \in posting : d.user # userId}
            last == IF others = {} THEN c ELSE CHOOSE d \in others : TRUE
        IN  /\ c.user = userId
            /\ posting' = posting \ {c}
            /\ Len(activities) < MaxActivities
            /\ activities' = createActivity(last.activity)
            /\ res' = [op |-> "postActivity", user |-> userId, status |-> 200,
                       json |-> [activity |-> activities'[Len(activities')],
                                 emissions |-> last.emissions,
                                 message |-> "Activity logged successfully"]]

\* POST /api/activities from its await: the insert of the call in flight
\* for userId runs and the response is sent, or it rejects
PostActivityInsert(userId) ==
    \E c \in posting :
        /\ c.user = userId
        /\ posting' = posting \ {c}
        /\ \/ /\ Len(activities) < MaxActivities
              /\ activities' = createActivity(c.activity)
              /\ res' = [op |-> "postActivity", user |-> userId,
                         status |-> 200,
                         json |-> [activity |-> activities'[Len(activities')],
                                   emissions |-> c.emissions,
                                   message |-> "Activity logged successfully"]]
           \/ /\ res' = [op |-> "postActivity", user |-> userId,
                         status |-> 500,
                         json |-> [message |-> "Failed to log activity"]]
              /\ UNCHANGED activities

\* a tip of generatePersonalizedTips
Tip(title, description, category) ==
    [title |-> title, description |-> description, category |-> category]

generatePersonalizedTipsUnsliced(emissionsByCategory) ==
    LET transport ==
            IF /\ emissionsByCategory.transport > emissionsByCategory.energy
               /\ emissionsByCategory.transport > emissionsByCategory.food
            THEN <<Tip("Use public transportation",
                       "Reduce transport emissions by 45%", "transport"),
                   Tip("Consider carpooling",
                       "Share rides to cut emissions in half", "transport")>>
            ELSE <<>>
        energy ==
            IF emissionsByCategory.energy > 100
            THEN <<Tip("Switch to LED bulbs",
                       "Save 75% energy usage on lighting", "energy"),
                   Tip("Unplug devices when not in use",
                       "Eliminate phantom energy consumption", "energy")>>
            ELSE <<>>
        food ==
            IF emissionsByCategory.food > 50
            THEN <<Tip("Eat more plant-based meals",
                       "Lower food carbon footprint significantly", "food"),
                   Tip("Choose local and seasonal produce",
                       "Reduce food transportation emissions", "food")>>
            ELSE <<>>
        general ==
            <<Tip("Great job! Keep it up",
                  "Your emissions are below average", "general"),
              Tip("Consider offsetting remaining emissions",
                  "Support verified carbon offset projects", "general")>>
        tips == IF transport \o energy \o food = <<>> THEN general
                ELSE transport \o energy \o food
    IN  tips

\* generatePersonalizedTips(emissionsByCategory); 1.0 kg is 100 and 0.5 kg
\* is 50
generatePersonalizedTips(emissionsByCategory) ==
    LET transport ==
            IF /\ emissionsByCategory.transport > emissionsByCategory.energy
               /\ emissionsByCategory.transport > emissionsByCategory.food
            THEN <<Tip("Use public transportation",
                       "Reduce transport emissions by 45%", "transport"),
                   Tip("Consider carpooling",
                       "Share rides to cut emissions in half", "transport")>>
            ELSE <<>>
        energy ==
            IF emissionsByCategory.energy > 100
            THEN <<Tip("Switch to LED bulbs",
                       "Save 75% energy usage on lighting", "energy"),
                   Tip("Unplug devices when not in use",
                       "Eliminate phantom energy consumption", "energy")>>
            ELSE <<>>
        food ==
            IF emissionsByCategory.food > 50
            THEN <<Tip("Eat more plant-based meals",
                       "Lower food carbon footprint significantly", "food"),
                   Tip("Choose local and seasonal produce",
                       "Reduce food transportation emissions", "food")>>
            ELSE <<>>
        general ==
            <<Tip("Great job! Keep it up",
                  "Your emissions are below average", "general"),
              Tip("Consider offsetting remaining emissions",
                  "Support verified carbon offset projects", "general")>>
        tips == IF transport \o energy \o food = <<>> THEN general
                ELSE transport \o energy \o food
    IN  SubSeq(tips, 1, Min(3, Len(tips)))

\* the body of the dashboard response, from the results v of the storage
\* queries of the handler
DashboardJson(v) ==
    [totalEmissionsThisMonth |-> Round2(1000 * v.emissionsThisMonth),
     reductionPercentage |->
         ReductionPercentage(v.emissionsLastMonth, v.emissionsThisMonth),
     rank |-> v.userRank,
     emissionsByCategory |-> v.emissionsByCategory,
     goals |-> v.goals,
     achievements |-> SubSeq(v.achievements, 1, Min(5, Len(v.achievements))),
     personalizedTips |-> generatePersonalizedTips(v.emissionsByCategory),
     chartData |-> ChartData(v.recentActivities)]

\* GET /api/dashboard, when no other request runs between its queries and
\* no query fails
GetDashboard(userId) ==
    /\ \E recentActivities \in getUserActivities(userId, 7) :
           res' = [op |-> "dashboard", user |-> userId, status |-> 200,
                   json |-> DashboardJson(
                       [emissionsThisMonth |-> getEmissionsThisMonth(userId),
                        emissionsLastMonth |-> getEmissionsLastMonth(userId),
                        emissionsByCategory |->
                            getEmissionsByCategory(userId, 7),
                        recentActivities |-> recentActivities,
                        userRank |-> getUserRank(userId),
                        goals |-> getUserGoals(userId),
                        achievements |-> getUserAchievements(userId)])]
    /\ UNCHANGED activities

\* the database queries of the dashboard handler, in the order they are
\* awaited, by the name of the local that takes the result; getUserRank
\* awaits two, the user's total and then the users with a smaller one
DashboardQueries ==
    <<"emissionsThisMonth", "emissionsLastMonth", "emissionsByCategory",
      "recentActivities", "userTotal", "userRank", "goals", "achievements">>

\* the results query local can return for userId, the earlier locals being
\* values
QueryResults(local, userId, values) ==
    CASE local = "emissionsThisMonth" -> {getEmissionsThisMonth(userId)}
      [] local = "emissionsLastMonth" -> {getEmissionsLastMonth(userId)}
      [] local = "emissionsByCategory" -> {getEmissionsByCategory(userId, 7)}
      [] local = "recentActivities" -> getUserActivities(userId, 7)
      [] local = "userTotal" -> {UserTotal(userId)}
      [] local = "userRank" ->
             {Cardinality(BetterUsers(values.userTotal)) + 1}
      [] local = "goals" -> {getUserGoals(userId)}
      [] local = "achievements" -> {getUserAchievements(userId)}

\* the record of a storage call: the query, the number of rows of table
\* "activities" when it ran, and whether it resolved
Call(local, ok) == [query |-> local, rows |-> Len(activities), ok |-> ok]

DashboardStepSwallowing(userId) ==
    LET calls == IF req.pc = "idle" THEN <<>> ELSE req.calls
        values == IF req.pc = "idle" THEN <<>> ELSE req.values
        local == DashboardQueries[Len(calls) + 1]
        Continue(call, v) ==
            IF Len(calls) + 1 < Len(DashboardQueries)
            THEN /\ req' = [pc |-> "dashboard", user |-> userId,
                            calls |-> Append(calls, call),
                            values |-> (local :> v) @@ values]
                 /\ UNCHANGED res
            ELSE /\ res' = [op |-> "dashboard", user |-> userId,
                            status |-> 200, calls |-> Append(calls, call),
                            json |-> DashboardJson((local :> v) @@ values)]
                 /\ req' = NoRequest
    IN  /\ IF req.pc = "idle" THEN TRUE ELSE req.user = userId
        /\ \E v \in QueryResults(local, userId, values) :
               \/ Continue(Call(local, TRUE), v)
               \/ Continue(Call(local, FALSE), v)
        /\ UNCHANGED activities

\* GET /api/dashboard, one storage query at a time: the next query of the
\* request of userId resolves, and after the last one the response is sent;
\* or it rejects, and the catch block answers 500
DashboardStep(userId) ==
    LET calls == IF req.pc = "idle" THEN <<>> ELSE req.calls
        values == IF req.pc = "idle" THEN <<>> ELSE req.values
        local == DashboardQueries[Len(calls) + 1]
    IN  /\ IF req.pc = "idle" THEN TRUE ELSE req.user = userId
        /\ \/ \E v \in QueryResults(local, userId, values) :
                 IF Len(calls) + 1 < Len(DashboardQueries)
                 THEN /\ req' = [pc |-> "dashboard", user |-> userId,
                                 calls |-> Append(calls, Call(local, TRUE)),
                                 values |-> (local :> v) @@ values]
                      /\ UNCHANGED res
                 ELSE /\ res' = [op |-> "dashboard", user |-> userId,
                                 status |-> 200,
                                 calls |-> Append(calls, Call(local, TRUE)),
                                 json |->
                                     DashboardJson((local :> v) @@ values)]
                      /\ req' = NoRequest
           \/ /\ res' = [op |-> "dashboard", user |-> userId, status |-> 500,
                         calls |-> Append(calls, Call(local, FALSE)),
                         json |->
                             [message |-> "Failed to fetch dashboard data"]]
              /\ req' = NoRequest
        /\ UNCHANGED activities

\* the values of query parameter limit: none, or a numeral
LimitParams == {<<>>, <<-1>>, <<0>>, <<1>>, <<2>>}

\* parseInt(req.query.limit as string) || 10
ParseLimit(q) == IF q = <<>> \/ q[1] = 0 THEN 10 ELSE q[1]

\* GET /api/leaderboard
GetLeaderboard(q) ==
    LET limit == ParseLimit(q)
    IN  /\ \/ /\ limit >= 0
              /\ \E leaderboard \in getLeaderboard(limit) :
                     res' = [op |-> "leaderboard", query |-> q, status |-> 200,
                             json |-> leaderboard]
           \/ \* storage.getLeaderboard rejects: PostgreSQL refuses a
              \* negative LIMIT, and any query can fail
              /\ res' = [op |-> "leaderboard", query |-> q, status |-> 500,
                         json |-> [message |-> "Failed to fetch leaderboard"]]
        /\ UNCHANGED activities

\* parseInt(req.query.limit as string) || 30
ParseActivitiesLimit(q) == IF q = <<>> \/ q[1] = 0 THEN 30 ELSE q[1]

\* GET /api/activities
GetActivities(userId, q) ==
    LET limit == ParseActivitiesLimit(q)
    IN  /\ \/ /\ limit >= 0
              /\ \E userActivities \in getUserActivities(userId, limit) :
                     res' = [op |-> "getActivities", user |-> userId,
                             query |-> q, status |-> 200,
                             json |-> userActivities]
           \/ \* PostgreSQL rejects a negative LIMIT
              /\ limit < 0
              /\ res' = [op |-> "getActivities", user |-> userId,
                         query |-> q, status |-> 500,
                         json |-> [message |-> "Failed to fetch activities"]]
        /\ UNCHANGED <<activities, goals, achievements>>

MaxGoals == 1

\* db.insert(goals).values(goal).returning(): the serial id, the column
\* defaults and the insertion timestamp are added
createGoal(goal) ==
    Append(goals,
           [id |-> Len(goals) + 1, createdAt |-> Len(goals) + 1] @@ goal
               @@ [currentValue |-> 0, achieved |-> FALSE])

PostGoalTrustingBody(userId, goalData) ==
    LET input == goalData @@ [userId |-> JStr(userId)]
    IN  /\ IF ZodErrorGoal(input)
           THEN /\ res' = [op |-> "postGoal", user |-> userId, status |-> 400,
                           json |-> [message |-> "Invalid goal data"]]
                /\ UNCHANGED goals
           ELSE \/ /\ Len(goals) < MaxGoals
                   /\ goals' = createGoal(ParsedGoal(input))
                   /\ res' = [op |-> "postGoal", user |-> userId,
                              status |-> 200, json |-> goals'[Len(goals')]]
                \/ /\ res' = [op |-> "postGoal", user |-> userId,
                              status |-> 500,
                              json |-> [message |-> "Failed to create goal"]]
                   /\ UNCHANGED goals
        /\ UNCHANGED <<activities, achievements>>

\* POST /api/goals
PostGoal(userId, goalData) ==
    LET input == [userId |-> JStr(userId)] @@ goalData
    IN  /\ IF ZodErrorGoal(input)
           THEN /\ res' = [op |-> "postGoal", user |-> userId, status |-> 400,
                           json |-> [message |-> "Invalid goal data"]]
                /\ UNCHANGED goals
           ELSE \/ /\ Len(goals) < MaxGoals
                   /\ goals' = createGoal(ParsedGoal(input))
                   /\ res' = [op |-> "postGoal", user |-> userId,
                              status |-> 200, json |-> goals'[Len(goals')]]
                \/ \* storage.createGoal rejects
                   /\ res' = [op |-> "postGoal", user |-> userId,
                              status |-> 500,
                              json |-> [message |-> "Failed to create goal"]]
                   /\ UNCHANGED goals
        /\ UNCHANGED <<activities, achievements>>

\* GET /api/goals
GetGoals(userId) ==
    /\ res' = [op |-> "getGoals", user |-> userId, status |-> 200,
               json |-> getUserGoals(userId)]
    /\ UNCHANGED <<activities, goals, achievements>>

\* storage.updateGoal(goalId, updates): update goals set ... where id =
\* goalId, returning the updated row, undefined when there is none
UpdateGoal(goalId, updates) ==
    /\ goals' = [k \in DOMAIN goals |->
                    IF goals[k].id = goalId THEN updates @@ goals[k]
                    ELSE goals[k]]
    /\ res' = [op |-> "updateGoal", goalId |-> goalId,
               value |-> IF goalId \in DOMAIN goals THEN <<goals'[goalId]>>
                         ELSE <<>>]
    /\ UNCHANGED <<activities, achievements>>

MaxAchievements == 1

\* storage.createAchievement(achievement): the serial id and the insertion
\* timestamp are added
CreateAchievement(achievement) ==
    /\ Len(achievements) < MaxAchievements
    /\ achievements' =
           Append(achievements,
                  [id |-> Len(achievements) + 1,
                   unlockedAt |-> Len(achievements) + 1] @@ achievement)
    /\ res' = [op |-> "createAchievement",
               value |-> achievements'[Len(achievements')]]
    /\ UNCHANGED <<activities, goals>>

\* storage.getTotalEmissions(userId)
GetTotalEmissions(userId) ==
    /\ res' = [op |-> "getTotalEmissions", user |-> userId,
               value |-> getTotalEmissions(userId)]
    /\ UNCHANGED <<activities, goals, achievements>>

\* storage.getUserActivitiesByDateRange(userId, startDate, endDate)
GetActivitiesByDateRange(userId, startDate, endDate) ==
    /\ \E rows \in getUserActivitiesByDateRange(userId, startDate, endDate) :
           res' = [op |-> "getUserActivitiesByDateRange", user |-> userId,
                   startDate |-> startDate, endDate |-> endDate,
                   value |-> rows]
    /\ UNCHANGED <<activities, goals, achievements>>

Next ==
    \/ \E userId \in Users, activityData \in Inputs :
           /\ PostActivity(userId, activityData)
           /\ UNCHANGED <<goals, achievements, posting, req, now, tz, data, out>>
    \/ \E userId \in Users :
           /\ GetDashboard(userId)
           /\ UNCHANGED <<goals, achievements, posting, req, now, tz, data, out>>
    \/ \E q \in LimitParams :
           /\ GetLeaderboard(q)
           /\ UNCHANGED <<goals, achievements, posting, req, now, tz, data, out>>

Spec == Init /\ [][Next]_vars

----------------------------------------------------------------------------
(* SpecMonths: activities of this month and of last month, and the         *)
(* dashboard that compares the two                                         *)

\* 14 February
MidFebruary == FirstDay(2) + 13

\* 12 March, three days before today
TwelfthOfMarch == FirstDay(3) + 11

\* request bodies dated today: 50 miles (6.50 kg) and 49.8 miles (6.47 kg) by
\* electric car, 2 beef servings (30.40 kg), a negative usage (-3.70 kg);
\* dated 14 February: 50 miles by electric car, and an unrecognized
\* transport type; dated 12 March: 50 miles by electric car
MonthInputs ==
    {[transportType |-> JStr("car_electric"), transportDistance |-> JNum(5000)],
     [transportType |-> JStr("car_electric"), transportDistance |-> JNum(4980)],
     [beefServings |-> JNum(2)],
     [electricityUsage |-> JNum(-1000)],
     [date |-> JStr(MidFebruary), transportType |-> JStr("car_electric"),
      transportDistance |-> JNum(5000)],
     [date |-> JStr(MidFebruary), transportType |-> JStr("plane"),
      transportDistance |-> JNum(1000)],
     [date |-> JStr(TwelfthOfMarch), transportType |-> JStr("car_electric"),
      transportDistance |-> JNum(5000)]}

NextMonths ==
    \/ \E userId \in Users, activityData \in MonthInputs :
           /\ PostActivity(userId, activityData)
           /\ UNCHANGED <<goals, achievements, posting, req, now, tz, data, out>>
    \/ \E userId \in Users :
           /\ GetDashboard(userId)
           /\ UNCHANGED <<goals, achievements, posting, req, now, tz, data, out>>

SpecMonths == Init /\ [][NextMonths]_vars

----------------------------------------------------------------------------
(* SpecStorage: every operation of the routes and of the storage interface *)
(* that reads or writes the tables of activities, goals and achievements   *)

\* the users whose requests and calls are followed
Callers == {"A", "B"}

\* request bodies of POST /api/activities: 50 miles by electric car, dated
\* today
StorageInputs ==
    {[transportType |-> JStr("car_electric"), transportDistance |-> JNum(5000)]}

\* request bodies of POST /api/goals: a monthly target of 100 kg for March,
\* and a body without a target
GoalInputs ==
    {[type |-> JStr("monthly_target"), targetValue |-> JNum(10000),
      period |-> JStr("month"), startDate |-> JStr(FirstDay(3)),
      endDate |-> JStr(LastDay(3))],
     [type |-> JStr("monthly_target"), period |-> JStr("month")]}

\* arguments of storage.updateGoal and storage.createAchievement
GoalIds == 1 .. MaxGoals
GoalUpdates == {[achieved |-> TRUE, currentValue |-> 5000]}
AchievementInputs ==
    {[userId |-> "A", type |-> "eco_warrior", title |-> "Eco Warrior"]}

NextStorage ==
    \/ \E userId \in Callers, activityData \in StorageInputs :
           /\ PostActivity(userId, activityData)
           /\ UNCHANGED <<goals, achievements, posting, req, now, tz, data, out>>
    \/ \E userId \in Callers, q \in LimitParams :
           /\ GetActivities(userId, q)
           /\ UNCHANGED <<posting, req, now, tz, data, out>>
    \/ \E userId \in Callers :
           /\ GetDashboard(userId)
           /\ UNCHANGED <<goals, achievements, posting, req, now, tz, data, out>>
    \/ \E q \in LimitParams :
           /\ GetLeaderboard(q)
           /\ UNCHANGED <<goals, achievements, posting, req, now, tz, data, out>>
    \/ \E userId \in Callers, goalData \in GoalInputs :
           /\ PostGoal(userId, goalData)
           /\ UNCHANGED <<posting, req, now, tz, data, out>>
    \/ \E userId \in Callers :
           /\ GetGoals(userId)
           /\ UNCHANGED <<posting, req, now, tz, data, out>>
    \/ \E goalId \in GoalIds, updates \in GoalUpdates :
           /\ UpdateGoal(goalId, updates)
           /\ UNCHANGED <<posting, req, now, tz, data, out>>
    \/ \E achievement \in AchievementInputs :
           /\ CreateAchievement(achievement)
           /\ UNCHANGED <<posting, req, now, tz, data, out>>
    \/ \E userId \in Callers :
           /\ GetTotalEmissions(userId)
           /\ UNCHANGED <<posting, req, now, tz, data, out>>
    \/ \E userId \in Callers :
           /\ GetActivitiesByDateRange(userId, FirstDay(3), LastDay(3))
           /\ UNCHANGED <<posting, req, now, tz, data, out>>

SpecStorage == Init /\ [][NextStorage]_vars

----------------------------------------------------------------------------
(* SpecPosts: request bodies that carry fields the handlers must not take  *)
(* from the body                                                           *)

\* request bodies of POST /api/activities: 50 miles by electric car; 100
\* miles with emission fields of 0; an unrecognized transport type with
\* emission fields of 0; 2 beef servings with another user's id
PostInputs ==
    {[transportType |-> JStr("car_electric"), transportDistance |-> JNum(5000)],
     [transportType |-> JStr("car_electric"), transportDistance |-> JNum(10000),
      transportEmissions |-> JNum(0), totalEmissions |-> JNum(0)],
     [transportType |-> JStr("plane"), transportDistance |-> JNum(1000),
      transportEmissions |-> JNum(0), totalEmissions |-> JNum(0)],
     [userId |-> JStr("C"), beefServings |-> JNum(2)]}

\* request bodies of POST /api/goals: the bodies of GoalInputs, and a
\* weekly goal with another user's id
PostGoalInputs ==
    GoalInputs \cup
    {[userId |-> JStr("C"), type |-> JStr("weekly_reduction"),
      targetValue |-> JNum(2000), period |-> JStr("week"),
      startDate |-> JStr(TwelfthOfMarch), endDate |-> JStr(MarchEnd)]}

NextPosts ==
    \/ \E userId \in Callers, activityData \in PostInputs :
           /\ PostActivity(userId, activityData)
           /\ UNCHANGED <<goals, achievements, posting, req, now, tz, data, out>>
    \/ \E userId \in Callers, goalData \in PostGoalInputs :
           /\ PostGoal(userId, goalData)
           /\ UNCHANGED <<posting, req, now, tz, data, out>>
    \/ \E userId \in Users, q \in {<<>>} :
           /\ GetActivities(userId, q)
           /\ UNCHANGED <<posting, req, now, tz, data, out>>
    \/ \E userId \in Users :
           /\ GetGoals(userId)
           /\ UNCHANGED <<posting, req, now, tz, data, out>>

SpecPosts == Init /\ [][NextPosts]_vars

----------------------------------------------------------------------------
(* SpecAwait: the dashboard handler one storage query at a time, with      *)
(* other requests between its queries                                      *)

\* request bodies of POST /api/activities, dated today: 50 miles by electric
\* car (6.50 kg) and 2 beef servings (30.40 kg)
AwaitInputs ==
    {[transportType |-> JStr("car_electric"), transportDistance |-> JNum(5000)],
     [beefServings |-> JNum(2)]}

\* the requests of SpecAwait: A logs the beef servings, B the car trip
AwaitPosts ==
    {<<"A", [beefServings |-> JNum(2)]>>,
     <<"B", [transportType |-> JStr("car_electric"),
             transportDistance |-> JNum(5000)]>>}

NextAwait ==
    \/ \E p \in AwaitPosts :
           /\ PostActivity(p[1], p[2])
           /\ UNCHANGED <<goals, achievements, posting, req, now, tz, data, out>>
    \/ \E userId \in {"A"} :
           /\ DashboardStep(userId)
           /\ UNCHANGED <<goals, achievements, posting, now, tz, data, out>>
    \/ \E q \in {<<>>} :
           /\ GetLeaderboard(q)
           /\ UNCHANGED <<goals, achievements, posting, req, now, tz, data, out>>

SpecAwait == Init /\ [][NextAwait]_vars

----------------------------------------------------------------------------
(* SpecConcurrent: POST /api/activities requests of different users whose  *)
(* inserts are in flight at the same time                                  *)

NextConcurrent ==
    \/ \E userId \in Callers, activityData \in AwaitInputs :
           /\ PostActivityArrive(userId, activityData)
           /\ UNCHANGED <<goals, achievements, req, now, tz, data, out>>
    \/ \E userId \in Callers :
           /\ PostActivityInsert(userId)
           /\ UNCHANGED <<goals, achievements, req, now, tz, data, out>>
    \/ \E userId \in Users :
           /\ GetDashboard(userId)
           /\ UNCHANGED <<goals, achievements, posting, req, now, tz, data, out>>

SpecConcurrent == Init /\ [][NextConcurrent]_vars

----------------------------------------------------------------------------
(* SpecTips: generatePersonalizedTips applied to category breakdowns       *)

\* hundredths of a kg around the thresholds 0.5 and 1.0, and a negative sum
TipValues == {-370, 0, 50, 51, 100, 101, 650}

Breakdowns == [transport : TipValues, energy : TipValues, food : TipValues]

InitTips ==
    /\ InitServer
    /\ data \in Breakdowns
    /\ out = NoResult

CallGenerateTips ==
    /\ out.by = "none"
    /\ out' = [by |-> "tips", r |-> generatePersonalizedTips(data)]
    /\ UNCHANGED <<activities, goals, achievements, posting, req, now, tz, res,
                   data>>

NextTips == CallGenerateTips

SpecTips == InitTips /\ [][NextTips]_vars

----------------------------------------------------------------------------
(* SpecCalc: the two calculators applied to every input of ActivityData    *)

InitCalc ==
    /\ InitServer
    /\ data \in ActivityData
    /\ out = NoResult

CallServerCalculate ==
    /\ out.by = "none"
    /\ out' = [by |-> "server", r |-> calculateEmissions(data)]
    /\ UNCHANGED <<activities, goals, achievements, posting, req, now, tz, res,
                 data>>

CallClientCalculate ==
    /\ out.by = "none"
    /\ out' = [by |-> "client", r |-> clientCalculateEmissions(data)]
    /\ UNCHANGED <<activities, goals, achievements, posting, req, now, tz, res,
                 data>>

NextCalc == CallServerCalculate \/ CallClientCalculate

SpecCalc == InitCalc /\ [][NextCalc]_vars

----------------------------------------------------------------------------
(* SpecPure: a calculator called a second time with the argument of its    *)
(* first call, while activities are being logged                           *)

PureInputs ==
    {<<>>,
     [transportType |-> "car_electric", transportDistance |-> 5000],
     [transportType |-> "plane", transportDistance |-> 1000],
     [electricityUsage |-> 1000, beefServings |-> 2]}

InitPure ==
    /\ InitServer
    /\ data \in PureInputs
    /\ out = NoResult

RepeatCalculateAccumulating ==
    LET r == IF out.by = "server" THEN calculateEmissions(data)
                                  ELSE clientCalculateEmissions(data)
    IN  /\ out.by \in {"server", "client"}
        /\ "first" \notin DOMAIN out
        /\ out' = [by |-> out.by, first |-> out.r,
                   r |-> [f \in DOMAIN r |-> Plus(out.r[f], r[f])]]
        /\ UNCHANGED <<activities, goals, achievements, posting, req, now, tz,
                       res, data>>

\* the calculator of the first call is called again with the same argument;
\* it assigns to its own locals only
RepeatCalculate ==
    /\ out.by \in {"server", "client"}
    /\ "first" \notin DOMAIN out
    /\ out' = [by |-> out.by, first |-> out.r,
               r |-> IF out.by = "server" THEN calculateEmissions(data)
                                          ELSE clientCalculateEmissions(data)]
    /\ UNCHANGED <<activities, goals, achievements, posting, req, now, tz, res,
                   data>>

NextPure ==
    \/ CallServerCalculate
    \/ CallClientCalculate
    \/ RepeatCalculate
    \/ \E userId \in Callers, activityData \in StorageInputs :
           /\ PostActivity(userId, activityData)
           /\ UNCHANGED <<goals, achievements, posting, req, now, tz, data, out>>

SpecPure == InitPure /\ [][NextPure]_vars

----------------------------------------------------------------------------
(* Properties of the calculators, checked under SpecCalc                   *)

NumericFields ==
    {"transportDistance", "electricityUsage", "naturalGasUsage",
     "beefServings", "chickenServings", "vegetableServings"}

\* the value of an optional numeric field, an absent one counting for 0
Val(d, f) == IF f \in DOMAIN d THEN d[f] ELSE 0

NonNegative(d) == \A f \in NumericFields \cap DOMAIN d : d[f] >= 0

\* a valid activity input: non-negative numbers and, when there is a
\* transport type, one of the six recognized ones
ValidActivity(d) ==
    /\ NonNegative(d)
    /\ "transportType" \in DOMAIN d => d.transportType \in RecognizedTypes

Called == out.by # "none"

\* the unrounded transport value of the call that produced out
RawTransport ==
    IF out.by = "server" THEN ServerTransport(data) ELSE ClientTransport(data)

SumOfFields ==
    out.r.transportEmissions + out.r.energyEmissions + out.r.foodEmissions

\* C1 as stated: for every valid input, totalEmissions is round2 of the sum
\* of the three rounded category fields of the same result.
C1_TotalOfRoundedFields ==
    (Called /\ ValidActivity(data)) =>
        out.r.totalEmissions = Round2(1000 * SumOfFields)

\* C1 amended: for every valid input, totalEmissions is round2 of the sum of
\* the three unrounded category values, and is within 0.01 of the sum of the
\* three rounded fields.
C1_TotalOfUnroundedSum ==
    (Called /\ ValidActivity(data)) =>
        /\ out.r.totalEmissions =
               Round2(RawTransport + EnergySum(data) + FoodSum(data))
        /\ out.r.totalEmissions - SumOfFields \in {-1, 0, 1}

\* a valid input whose total is one cent above the sum of its fields
C1_Witness ==
    /\ Called
    /\ ValidActivity(data)
    /\ out.r.totalEmissions = SumOfFields + 1

\* C4: for a recognized transport type and a non-negative distance,
\* transportEmissions = round2(factor * distance) with the factors 0.39,
\* 0.13, 0.07, 0.045, 0 and 0; bike and walking give 0; transport is 0 when
\* the type or the distance is absent.
C4_Factor ==
    [car_gasoline |-> 390, car_electric |-> 130, bus |-> 70, train |-> 45,
     bike |-> 0, walking |-> 0]

C4_TransportEmissions ==
    Called =>
        /\ ( /\ "transportType" \in DOMAIN data
             /\ data.transportType \in DOMAIN C4_Factor
             /\ "transportDistance" \in DOMAIN data
             /\ data.transportDistance >= 0 )
           => /\ out.r.transportEmissions =
                     Round2(C4_Factor[data.transportType]
                            * data.transportDistance)
              /\ data.transportType \in {"bike", "walking"}
                     => out.r.transportEmissions = 0
        /\ ( \/ "transportType" \notin DOMAIN data
             \/ "transportDistance" \notin DOMAIN data )
           => out.r.transportEmissions = 0

\* 100 miles by train give 4.50 kg
C4_Witness ==
    /\ out.by = "server"
    /\ "transportType" \in DOMAIN data
    /\ data.transportType = "train"
    /\ "transportDistance" \in DOMAIN data
    /\ data.transportDistance = 10000
    /\ out.r.transportEmissions = 450

\* C5: for non-negative electricity and natural gas usage, energyEmissions =
\* round2(0.37 * electricityUsage + 5.3 * naturalGasUsage), an absent or zero
\* input contributing nothing; 10 kWh and no gas give 3.70.
C5_EnergyEmissions ==
    (Called /\ NonNegative(data)) =>
        /\ out.r.energyEmissions =
               Round2(370 * Val(data, "electricityUsage")
                      + 5300 * Val(data, "naturalGasUsage"))
        /\ ( Val(data, "electricityUsage") = 1000
             /\ Val(data, "naturalGasUsage") = 0 )
           => out.r.energyEmissions = 370

\* 10 kWh and 1 therm give 3.70 + 5.30 = 9.00 kg
C5_Witness ==
    /\ out.by = "server"
    /\ Val(data, "electricityUsage") = 1000
    /\ Val(data, "naturalGasUsage") = 100
    /\ out.r.energyEmissions = 900

\* C6: for non-negative integer servings, foodEmissions = round2(30.4 * 0.5 *
\* beef + 4.2 * 0.2 * chicken + 1.0 * 0.15 * vegetable); 2 beef servings
\* give 30.40.
C6_FoodEmissions ==
    (Called /\ NonNegative(data)) =>
        /\ out.r.foodEmissions =
               Round2(30400 * 50 * Val(data, "beefServings")
                      + 4200 * 20 * Val(data, "chickenServings")
                      + 1000 * 15 * Val(data, "vegetableServings"))
        /\ ( Val(data, "beefServings") = 2
             /\ Val(data, "chickenServings") = 0
             /\ Val(data, "vegetableServings") = 0 )
           => out.r.foodEmissions = 3040

\* 2 beef, 1 chicken and 1 vegetable serving give 30.40 + 0.84 + 0.15 kg
C6_Witness ==
    /\ out.by = "server"
    /\ Val(data, "beefServings") = 2
    /\ Val(data, "chickenServings") = 1
    /\ Val(data, "vegetableServings") = 1
    /\ out.r.foodEmissions = 3139

\* C25: the client-side and the server-side calculateEmissions return the
\* same four values for every input, including inputs whose transportType
\* is present but not one of the six recognized types.
C25_CalculatorsAgree ==
    /\ out.by = "server" => out.r = clientCalculateEmissions(data)
    /\ out.by = "client" => out.r = calculateEmissions(data)

----------------------------------------------------------------------------
(* Properties of the request handlers, checked under Spec                  *)

\* the current calendar month in the server's local time zone
CurrentMonth == MonthOfDay((now + tz) \div 24 + 1)

DatedInCurrentMonth(i) == MonthOfDay(activities[i].date) = CurrentMonth

RowsOfCurrentMonth(u) == {i \in RowsOfUser(u) : DatedInCurrentMonth(i)}

\* the users with at least one record dated in the current month
ActiveUsers == {u \in Users : RowsOfCurrentMonth(u) # {}}

\* a user's current-month total emissions
MonthlyTotal(u) == SumCol("totalEmissions", RowsOfCurrentMonth(u))

\* no persisted emission value is NaN
AllNumeric ==
    \A i \in DOMAIN activities :
        /\ activities[i].transportEmissions # NaN
        /\ activities[i].totalEmissions # NaN

Posted == res.op = "postActivity" /\ res.status = 200

\* C2: an unrecognized transportType with a positive distance gives
\* transportEmissions = 0 and a numeric totalEmissions equal to the energy
\* plus food contribution; nothing non-numeric is produced or persisted.
C2_UnrecognizedTypeGivesZero ==
    ( /\ Posted
      /\ "transportType" \in DOMAIN res.json.activity
      /\ res.json.activity.transportType \notin RecognizedTypes
      /\ "transportDistance" \in DOMAIN res.json.activity
      /\ res.json.activity.transportDistance > 0 )
    => /\ res.json.emissions.transportEmissions = 0
       /\ res.json.emissions.totalEmissions =
              Round2(Plus(EnergySum(res.json.activity),
                          FoodSum(res.json.activity)))
       /\ res.json.activity.transportEmissions # NaN
       /\ res.json.activity.totalEmissions # NaN

\* C3: every input that passes insertActivitySchema, and so every persisted
\* record, has non-negative numeric fields and a transportType that is
\* absent or one of the six recognized values.
C3_OnlyValidInputsPass ==
    /\ \A i \in DOMAIN activities : ValidActivity(activities[i])
    /\ Posted => ValidActivity(res.json.activity)

\* C7: for a user with current-month activity, the rank is 1 + the number of
\* other users with current-month activity whose current-month total is
\* strictly less than the user's.
C7_RankCountsStrictlyLower ==
    ( /\ res.op = "dashboard"
      /\ AllNumeric
      /\ res.user \in ActiveUsers )
    => res.json.rank =
           1 + Cardinality({v \in ActiveUsers \ {res.user} :
                               MonthlyTotal(v) < MonthlyTotal(res.user)})

\* C8: for a user with no record in the current month the rank computation
\* yields no numeric position.
C8_NoRankWithoutActivity ==
    ( /\ res.op = "dashboard"
      /\ res.user \notin ActiveUsers )
    => res.json.rank \in {Null, Undefined}

\* the users of the entries of a leaderboard response
EntryUsers == {res.json[k].user : k \in DOMAIN res.json}

Listed == res.op = "leaderboard" /\ res.status = 200

\* C9: the leaderboard never has an entry for a user without a record dated
\* in the current month, and has one for every user with such a record, up
\* to the limit.
C9_LeaderboardIsActiveUsers ==
    Listed =>
        /\ EntryUsers \subseteq ActiveUsers
        /\ Cardinality(EntryUsers) =
               Min(ParseLimit(res.query), Cardinality(ActiveUsers))

\* C10: the leaderboard entries are in non-decreasing order of current-month
\* total emissions, with ranks 1, 2, ..., k in list order.
C10_LeaderboardAscending ==
    (Listed /\ AllNumeric) =>
        /\ \A k \in DOMAIN res.json : res.json[k].rank = k
        /\ \A j, k \in DOMAIN res.json :
               j < k => /\ res.json[j].totalEmissions
                               <= res.json[k].totalEmissions
                        /\ MonthlyTotal(res.json[j].user)
                               <= MonthlyTotal(res.json[k].user)

\* C11: in the leaderboard, two users whose current-month totals are
\* identical receive the same numeric rank position.
C11_TiesShareRank ==
    (Listed /\ AllNumeric) =>
        \A j, k \in DOMAIN res.json :
            MonthlyTotal(res.json[j].user) = MonthlyTotal(res.json[k].user)
                => res.json[j].rank = res.json[k].rank

\* the users whose current-month total is strictly below every other active
\* user's
StrictlyLowest ==
    {u \in ActiveUsers :
        \A v \in ActiveUsers \ {u} : MonthlyTotal(u) < MonthlyTotal(v)}

\* C12: when at least two users have activity in the current month and
\* exactly one of them has the strictly lowest current-month total, that
\* user's rank is 1, from getUserRank and as the first leaderboard entry,
\* and no other user's rank is 1.
C12_LowestIsRankOne ==
    ( /\ AllNumeric
      /\ Cardinality(ActiveUsers) >= 2
      /\ StrictlyLowest # {} )
    => /\ ( res.op = "dashboard" /\ res.user \in ActiveUsers )
          => ( res.json.rank = 1 <=> res.user \in StrictlyLowest )
       /\ ( Listed /\ res.json # <<>> )
          => /\ res.json[1].user \in StrictlyLowest
             /\ res.json[1].rank = 1
             /\ \A k \in DOMAIN res.json : k > 1 => res.json[k].rank # 1

\* C26: over the same records and with a limit at least the number of
\* active users, every leaderboard entry's rank equals getUserRank of the
\* entry's user, also when several users have identical current-month
\* totals.
C26_RanksAgree ==
    (Listed /\ ParseLimit(res.query) >= Cardinality(GroupsOfMonth)) =>
        \A k \in DOMAIN res.json :
            res.json[k].rank = getUserRank(res.json[k].user)

\* C29: rank respects emissions order: for two users with activity in the
\* current month, a strictly smaller current-month total gives a strictly
\* smaller getUserRank, equal totals give equal ranks, and every active
\* user's rank lies between 1 and the number of active users.
C29_RankRespectsOrder ==
    (res.op = "dashboard" /\ res.user \in ActiveUsers) =>
        /\ res.json.rank \in 1 .. Cardinality(ActiveUsers)
        /\ \A v \in ActiveUsers :
               /\ MonthlyTotal(res.user) < MonthlyTotal(v)
                      => res.json.rank < getUserRank(v)
               /\ MonthlyTotal(v) < MonthlyTotal(res.user)
                      => getUserRank(v) < res.json.rank
               /\ MonthlyTotal(v) = MonthlyTotal(res.user)
                      => getUserRank(v) = res.json.rank

----------------------------------------------------------------------------
(* Properties of the dashboard's month comparison, checked under SpecMonths *)

Dashboard == res.op = "dashboard" /\ res.status = 200

\* the last-month and this-month totals the dashboard handler obtained for
\* the user of the response
LastMonthTotal == getEmissionsLastMonth(res.user)
ThisMonthTotal == getEmissionsThisMonth(res.user)

\* C13: the dashboard's reductionPercentage is 0 whenever the user's
\* last-month total is 0, whatever the this-month total is; it is never a
\* non-finite value.
C13_ZeroWhenNoLastMonth ==
    Dashboard =>
        /\ LastMonthTotal = 0 => res.json.reductionPercentage = 0
        /\ res.json.reductionPercentage \in Int
        /\ res.json.reductionPercentage \notin {NaN, Undefined, Null}

\* a dashboard of a user with nothing last month and 6.50 kg this month
C13_Witness ==
    /\ Dashboard
    /\ LastMonthTotal = 0
    /\ ThisMonthTotal = 650
    /\ res.json.reductionPercentage = 0

\* p is x rounded to the nearest integer, halves up, for x = 100 * (last -
\* this) / last and last > 0: p <= x + 1/2 < p + 1
IsRoundedPercent(p, last, this) ==
    /\ 2 * last * p <= 200 * (last - this) + last
    /\ 200 * (last - this) + last < 2 * last * (p + 1)

\* C14 as stated: when the last-month total is positive, reductionPercentage
\* is round((last - this) / last * 100), positive when emissions fell,
\* negative when they rose, and never above 100 for non-negative totals.
C14_SignFollowsChange ==
    (Dashboard /\ LastMonthTotal > 0) =>
        /\ IsRoundedPercent(res.json.reductionPercentage,
                            LastMonthTotal, ThisMonthTotal)
        /\ ThisMonthTotal < LastMonthTotal => res.json.reductionPercentage > 0
        /\ ThisMonthTotal > LastMonthTotal => res.json.reductionPercentage < 0
        /\ ThisMonthTotal >= 0 => res.json.reductionPercentage <= 100

\* C14 amended: when the last-month total is positive, reductionPercentage
\* is round((last - this) / last * 100), not negative when emissions fell,
\* not positive when they rose (a change of less than half a percent rounds
\* to 0), and never above 100 for non-negative totals.
C14_RoundedPercent ==
    (Dashboard /\ LastMonthTotal > 0) =>
        /\ IsRoundedPercent(res.json.reductionPercentage,
                            LastMonthTotal, ThisMonthTotal)
        /\ ThisMonthTotal < LastMonthTotal => res.json.reductionPercentage >= 0
        /\ ThisMonthTotal > LastMonthTotal => res.json.reductionPercentage <= 0
        /\ ThisMonthTotal >= 0 => res.json.reductionPercentage <= 100

\* 6.50 kg last month and 6.47 kg this month: a fall that rounds to 0
C14_Witness ==
    /\ Dashboard
    /\ LastMonthTotal = 650
    /\ ThisMonthTotal = 647
    /\ res.json.reductionPercentage = 0

----------------------------------------------------------------------------
(* Properties of the dashboard's queries, checked under Spec               *)

\* the user's records dated in the calendar month before the current one
RowsOfPreviousMonth(u) ==
    {i \in RowsOfUser(u) : MonthOfDay(activities[i].date) = CurrentMonth - 1}

\* C15: getEmissionsThisMonth(u) is the sum of totalEmissions over exactly
\* u's records dated from the first to the last day of the current calendar
\* month in the server's local time zone, and getEmissionsLastMonth(u) the
\* same for the previous calendar month, for any time-zone offset.
C15_CalendarMonthSums ==
    (Dashboard /\ AllNumeric) =>
        /\ ThisMonthTotal = MonthlyTotal(res.user)
        /\ res.json.totalEmissionsThisMonth = MonthlyTotal(res.user)
        /\ LastMonthTotal =
               SumCol("totalEmissions", RowsOfPreviousMonth(res.user))

\* today's calendar date
Today == ToISODate(now)

\* the user's records dated within the trailing window of days days that
\* ends today
RowsOfWindow(u, days) ==
    {i \in RowsOfUser(u) :
        activities[i].date >= Today - days /\ activities[i].date <= Today}

\* C16: the dashboard's emissionsByCategory, getEmissionsByCategory(u, 7),
\* is per category the sum over exactly u's records dated within the
\* trailing 7-day window ending today; records dated after today or before
\* the window, and records of other users, contribute nothing.
C16_CategorySumsOfWindow ==
    (Dashboard /\ AllNumeric) =>
        LET I == RowsOfWindow(res.user, 7)
        IN  res.json.emissionsByCategory =
                [transport |-> SumCol("transportEmissions", I),
                 energy    |-> SumCol("energyEmissions", I),
                 food      |-> SumCol("foodEmissions", I)]

\* the calendar date of the n-th point of the trend series, the 7th being
\* today
DayOfPoint(n) == Today - (7 - n)

\* the user's records dated d
RowsOfDay(u, d) == {i \in RowsOfUser(u) : activities[i].date = d}

\* C17: each point of the dashboard's daily trend series (transport, energy,
\* food) is the sum of that category over all of the user's records dated
\* that day, and is 0 only when the user has no record that day.
C17_TrendSumsTheDay ==
    (Dashboard /\ AllNumeric) =>
       \A n \in 1 .. 7 :
           LET I == RowsOfDay(res.user, DayOfPoint(n))
           IN  /\ n \in DOMAIN res.json.chartData.transport
               /\ res.json.chartData.transport[n] =
                      SumCol("transportEmissions", I)
               /\ res.json.chartData.energy[n] = SumCol("energyEmissions", I)
               /\ res.json.chartData.food[n] = SumCol("foodEmissions", I)

\* the weekday name of calendar date d, 1 January being a Thursday
NameOfDay(d) == WeekdayNames[((d + 3) % 7) + 1]

\* today's calendar date in the server's local time zone
LocalToday == (now + tz) \div 24 + 1

\* the values of column col of the user's records dated d
ValuesOfDay(u, d, col) == {activities[i][col] : i \in RowsOfDay(u, d)}

----------------------------------------------------------------------------
(* Properties of the leaderboard's limit and of the activity records,      *)
(* checked under Spec                                                      *)

\* the limit of the request: the supplied number, 10 when none is supplied
SuppliedLimit == IF res.query = <<>> THEN 10 ELSE res.query[1]

\* C19: GET /api/leaderboard returns at most limit entries, limit being the
\* supplied limit parameter (any supplied value, including 0) and 10 when
\* none is supplied.
C19_AtMostLimitEntries ==
    Listed => Len(res.json) <= SuppliedLimit

----------------------------------------------------------------------------
(* Frame property of the activity records, checked under SpecStorage       *)

----------------------------------------------------------------------------
(* Properties of the two POST handlers, checked under SpecPosts            *)

EmissionColumns ==
    {"transportEmissions", "energyEmissions", "foodEmissions", "totalEmissions"}

\* the raw inputs and the emission fields of a persisted record
RawInputs(r) ==
    [c \in (NumberColumns \cup {"transportType"}) \cap DOMAIN r |-> r[c]]
StoredEmissions(r) == [c \in EmissionColumns |-> r[c]]

\* C21: in every reachable state, the four emission fields of each persisted
\* activity record are the output of calculateEmissions applied to the
\* record's own raw inputs, whatever emission fields the request body
\* carried.
C21_StoredEmissionsAreCalculated ==
    /\ \A i \in DOMAIN activities :
           StoredEmissions(activities[i]) =
               calculateEmissions(RawInputs(activities[i]))
    /\ Posted => res.json.emissions = StoredEmissions(res.json.activity)

\* a record of 100 miles by electric car, whose request carried emission
\* fields of 0, is stored with 13.00 kg
C21_Witness ==
    /\ Posted
    /\ "transportDistance" \in DOMAIN res.json.activity
    /\ res.json.activity.transportDistance = 10000
    /\ res.json.activity.transportEmissions = 1300
    /\ res.json.activity.totalEmissions = 1300

\* C28: every activity record and every goal persisted through POST
\* /api/activities or POST /api/goals has userId equal to the authenticated
\* caller's identity, whatever userId the request body supplies; no record
\* is attributed to another user.
C28_RecordsBelongToCaller ==
    /\ Posted => res.json.activity.userId = res.user
    /\ (res.op = "postGoal" /\ res.status = 200) => res.json.userId = res.user
    /\ \A i \in DOMAIN activities : activities[i].userId \in Callers
    /\ \A k \in DOMAIN goals : goals[k].userId \in Callers

\* the goal and the activity whose request bodies carried userId "C" are
\* persisted for the callers A and B
C28_Witness ==
    /\ res.op = "postGoal"
    /\ res.status = 200
    /\ res.user = "A"
    /\ res.json.type = "weekly_reduction"
    /\ res.json.userId = "A"
    /\ \E i \in DOMAIN activities :
           /\ activities[i].beefServings = 2
           /\ activities[i].userId = "B"

----------------------------------------------------------------------------
(* Properties of the dashboard handler between its queries, checked under  *)
(* SpecAwait                                                               *)

\* C22: if any storage query of GET /api/dashboard (or of GET
\* /api/leaderboard) fails, the response is a 500 that carries none of the
\* values already computed; a success response is sent only after every
\* query has succeeded; no query is retried.
C22_AllOrNothing ==
    /\ res.op = "dashboard" =>
           /\ res.calls # <<>>
           /\ \A k \in DOMAIN res.calls :
                  /\ k <= Len(DashboardQueries)
                  /\ res.calls[k].query = DashboardQueries[k]
                  /\ k < Len(res.calls) => res.calls[k].ok
           /\ res.status = 200 <=>
                  /\ Len(res.calls) = Len(DashboardQueries)
                  /\ res.calls[Len(res.calls)].ok
           /\ res.status = 500 <=> ~res.calls[Len(res.calls)].ok
           /\ res.status = 500 =>
                  res.json = [message |-> "Failed to fetch dashboard data"]
    /\ res.op = "leaderboard" =>
           /\ res.status \in {200, 500}
           /\ res.status = 500 =>
                  res.json = [message |-> "Failed to fetch leaderboard"]

\* a dashboard request of a user with 30.40 kg whose sixth query, the count
\* of getUserRank, failed after five queries had returned their values
C22_Witness ==
    /\ res.op = "dashboard"
    /\ res.status = 500
    /\ Len(res.calls) = 6
    /\ getEmissionsThisMonth(res.user) = 3040

\* the records of u dated in the current month among the first n records
RowsOfCurrentMonthIn(n, u) == {i \in RowsOfCurrentMonth(u) : i <= n}

TotalIn(n, u) == SumCol("totalEmissions", RowsOfCurrentMonthIn(n, u))

\* the rank of u over the first n records: 1 + the number of other users
\* with current-month records whose total is strictly less
RankIn(n, u) ==
    1 + Cardinality({v \in Users \ {u} :
                        /\ RowsOfCurrentMonthIn(n, v) # {}
                        /\ TotalIn(n, v) < TotalIn(n, u)})

\* C27: a dashboard response is computed from one consistent set of
\* records: the reported rank is the rank that corresponds to the reported
\* totalEmissionsThisMonth over a single record set that existed at some
\* moment during the request, also when insertions interleave with the
\* handler's queries.
C27_OneConsistentRecordSet ==
    (res.op = "dashboard" /\ res.status = 200) =>
        \E n \in res.calls[1].rows .. res.calls[Len(res.calls)].rows :
            /\ res.json.totalEmissionsThisMonth = TotalIn(n, res.user)
            /\ res.json.rank = RankIn(n, res.user)

----------------------------------------------------------------------------
(* Properties of concurrent inserts, checked under SpecConcurrent          *)

\* the row r is the record of the call c, attributed to the caller of c
RowOfCall(r, c) ==
    /\ r.userId = c.user
    /\ \A f \in DOMAIN c.activity : f \in DOMAIN r /\ r[f] = c.activity[f]

\* every user's monthly total, 7-day category breakdown and rank, as the
\* queries return them, are the values of the persisted records
QueriesCountEveryRecord ==
    \A u \in Users :
        /\ getEmissionsThisMonth(u) = MonthlyTotal(u)
        /\ LET I == RowsOfWindow(u, 7)
           IN  getEmissionsByCategory(u, 7) =
                   [transport |-> SumCol("transportEmissions", I),
                    energy    |-> SumCol("energyEmissions", I),
                    food      |-> SumCol("foodEmissions", I)]
        /\ u \in ActiveUsers =>
               getUserRank(u) =
                   1 + Cardinality({v \in ActiveUsers \ {u} :
                                       MonthlyTotal(v) < MonthlyTotal(u)})

\* C23: for every interleaving of createActivity calls issued concurrently
\* by different users, every completed call has inserted exactly one record,
\* attributed to the user who logged it, no other record is changed, and
\* once all calls have completed each user's monthly total, category
\* breakdown and rank are the values of the full set of persisted records.
C23_ConcurrentInsertsAllCounted ==
    [][/\ \A i \in DOMAIN activities :
              i \in DOMAIN activities' /\ activities'[i] = activities[i]
       /\ Len(activities') <= Len(activities) + 1
       /\ Len(activities') = Len(activities) + 1 =>
              \E c \in posting :
                  /\ posting' = posting \ {c}
                  /\ RowOfCall(activities'[Len(activities')], c)
       /\ \A c \in posting \ posting' :
              \/ /\ Len(activities') = Len(activities) + 1
                 /\ RowOfCall(activities'[Len(activities')], c)
              \/ /\ res'.op = "postActivity"
                 /\ res'.user = c.user
                 /\ res'.status = 500
       /\ posting' = {} => QueriesCountEveryRecord'
      ]_vars

\* the insert of A has completed while the insert of B was in flight, and B's
\* has completed after it
C23_Witness ==
    /\ posting = {}
    /\ Len(activities) = 2
    /\ activities[1].userId = "A"
    /\ activities[2].userId = "B"
    /\ Posted
    /\ res.user = "B"
    /\ getEmissionsThisMonth("A") = 650
    /\ getEmissionsThisMonth("B") = 3040

----------------------------------------------------------------------------
(* Properties of repeated calculator calls, checked under SpecPure         *)

----------------------------------------------------------------------------
(* Properties of the tips, checked under SpecTips                          *)

\* C30_Pair(c, category): two tips of the category when c holds, else none
C30_Pair(c, category) == IF c THEN <<category, category>> ELSE <<>>

\* C30: generatePersonalizedTips returns a non-empty list of at most 3
\* tips; the two general tips are returned exactly when no transport,
\* energy or food condition holds (transport is not the strict maximum,
\* energy <= 1.0 and food <= 0.5), and otherwise the tips are in the order
\* transport, energy, food, truncated to the first 3.
C30_TipsByCondition ==
    out.by = "tips" =>
        LET t == data.transport > data.energy /\ data.transport > data.food
            e == data.energy > 100
            f == data.food > 50
            all == C30_Pair(t, "transport") \o C30_Pair(e, "energy")
                       \o C30_Pair(f, "food")
            categories == [k \in DOMAIN out.r |-> out.r[k].category]
        IN  /\ Len(out.r) \in 1 .. 3
            /\ categories = <<"general", "general">> <=> ~(t \/ e \/ f)
            /\ (t \/ e \/ f) => categories = SubSeq(all, 1, Min(3, Len(all)))
            /\ \A j, k \in DOMAIN out.r : j # k => out.r[j] # out.r[k]

\* all three conditions hold: the two transport tips and the first energy
\* tip are returned
C30_Witness ==
    /\ out.by = "tips"
    /\ data = [transport |-> 650, energy |-> 101, food |-> 51]
    /\ Len(out.r) = 3
    /\ out.r[3].category = "energy"

====
